---------------------------- MODULE Spec2Model ----------------------------
(***************************************************************************)
(* Model of the Titanic notebook ApacheSparkwithPyspark.ipynb: the CSV     *)
(* line parser row_to_labeled_point, the header filter, the seeded         *)
(* randomSplit and the accuracy evaluation of the two classifiers.         *)
(*                                                                         *)
(* A Python str is a sequence of one-character strings, so that split,     *)
(* strip, indexing (klass[0]) and int() are computed as Python computes    *)
(* them.  Two specifications:                                              *)
(*   SpecParse  applies row_to_labeled_point to one input line;            *)
(*   Spec       runs the notebook's cells over a small input file.         *)
(***************************************************************************)
EXTENDS Integers, Sequences, FiniteSets, TLC

VARIABLES
    pc,                 \* the next notebook cell to run / parser position
    line,               \* SpecParse: the argument of row_to_labeled_point
    result,             \* SpecParse: what the call returned or raised
    raw_rdd,            \* the lines of titanic.csv
    header,             \* raw_rdd.first()
    data_rdd,           \* raw_rdd.filter(lambda line: line != header)
    labeled_points_rdd, \* data_rdd.map(row_to_labeled_point), per element
    split_seed,         \* the seed randomSplit fixed in the two samplers
    rng,                \* per seed, the uniform samples its generator yields
    training_count,
    test_count,
    model,              \* the trained classifier: features -> prediction
    accuracy,           \* the printed accuracy, an exact fraction
    error,              \* the exception that aborted the run, if any
    test_seen,          \* the distinct contents test_rdd had when evaluated
    prev                \* the subsets of the previous run of the notebook

vars == <<pc, line, result, raw_rdd, header, data_rdd, labeled_points_rdd,
          split_seed, rng, training_count, test_count, model, accuracy,
          error, test_seen, prev>>

None == [kind |-> "None"]

(***************************************************************************)
(* Bounds of the model.                                                    *)
(***************************************************************************)
MaxFieldSkew == 1   \* input lines have 5 - MaxFieldSkew .. 5 + MaxFieldSkew fields
MaxLines == 4       \* the input file has 0 .. MaxLines lines
MaxSeed == 1        \* the seeds a generator can be given are 0 .. MaxSeed

(***************************************************************************)
(* Python str values.                                                      *)
(***************************************************************************)
Quote == "\""
Comma == ","

s_empty == << >>
s_1 == <<"1">>
s_1st_class == <<"1", "s", "t", " ", "c", "l", "a", "s", "s">>
s_2nd_class == <<"2", "n", "d", " ", "c", "l", "a", "s", "s">>
s_3rd_class == <<"3", "r", "d", " ", "c", "l", "a", "s", "s">>
s_4th_class == <<"4", "t", "h", " ", "c", "l", "a", "s", "s">>
s_0th_class == <<"0", "t", "h", " ", "c", "l", "a", "s", "s">>
s_first_class == <<"f", "i", "r", "s", "t", " ", "c", "l", "a", "s", "s">>
s_1st == <<"1", "s", "t">>
s_class == <<"c", "l", "a", "s", "s">>
s_adults == <<"a", "d", "u", "l", "t", "s">>
s_adult == <<"a", "d", "u", "l", "t">>
s_child == <<"c", "h", "i", "l", "d">>
s_age == <<"a", "g", "e">>
s_man == <<"m", "a", "n">>
s_women == <<"w", "o", "m", "e", "n">>
s_woman == <<"w", "o", "m", "a", "n">>
s_sex == <<"s", "e", "x">>
s_yes == <<"y", "e", "s">>
s_no == <<"n", "o">>
s_maybe == <<"m", "a", "y", "b", "e">>
s_survived == <<"s", "u", "r", "v", "i", "v", "e", "d">>

\* the characters int() accepts as a one-character decimal literal
Digits == <<"0", "1", "2", "3", "4", "5", "6", "7", "8", "9">>

IsDigit(c) == \E d \in 1..Len(Digits) : Digits[d] = c

\* int(c) for a one-character string c holding a decimal digit
IntOfDigit(c) == (CHOOSE d \in 1..Len(Digits) : Digits[d] = c) - 1

(***************************************************************************)
(* str.split(sep): the segments between the occurrences of sep; a string   *)
(* without sep (also the empty one) gives one segment.                     *)
(***************************************************************************)
RECURSIVE SplitFrom(_, _, _, _)
SplitFrom(s, sep, i, cur) ==
    IF i > Len(s) THEN <<cur>>
    ELSE IF s[i] = sep THEN <<cur>> \o SplitFrom(s, sep, i + 1, << >>)
    ELSE SplitFrom(s, sep, i + 1, Append(cur, s[i]))

Split(s, sep) == SplitFrom(s, sep, 1, << >>)

(***************************************************************************)
(* str.strip(ch): every leading and every trailing ch removed.             *)
(***************************************************************************)
RECURSIVE LStrip(_, _)
LStrip(s, ch) ==
    IF s # << >> /\ Head(s) = ch THEN LStrip(Tail(s), ch) ELSE s

RECURSIVE RStrip(_, _)
RStrip(s, ch) ==
    IF s # << >> /\ s[Len(s)] = ch THEN RStrip(SubSeq(s, 1, Len(s) - 1), ch) ELSE s

Strip(s, ch) == RStrip(LStrip(s, ch), ch)

\* [segs.strip('"') for segs in line.split(',')]
StrippedSegments(l) ==
    LET segs == Split(l, Comma)
    IN  [i \in 1..Len(segs) |-> Strip(segs[i], Quote)]

(***************************************************************************)
(* row_to_labeled_point.  The result is a LabeledPoint or the exception    *)
(* the call raises.                                                        *)
(***************************************************************************)
LabeledPoint(label, features) ==
    [kind |-> "LabeledPoint", label |-> label, features |-> features]

Raise(exc, msg) == [kind |-> exc, msg |-> msg]

\* the number of targets of the tuple assignment
NumTargets == 5

\* variant: the class number itself
KlassCodeNoOffset(klass) == IntOfDigit(klass[1])

\* klass = int(klass[0]) - 1, for a klass whose first character is a digit
KlassCode(klass) == IntOfDigit(klass[1]) - 1

\* variant: "and" for "or"
UnknownValueAllOf(age, sex, survived) ==
    /\ age \notin {s_adults, s_child}
    /\ sex \notin {s_man, s_women}
    /\ survived \notin {s_yes, s_no}

\* the condition of the if statement that raises RuntimeError
UnknownValue(age, sex, survived) ==
    \/ age \notin {s_adults, s_child}
    \/ sex \notin {s_man, s_women}
    \/ survived \notin {s_yes, s_no}

\* variant: the two age codes exchanged
AgeCodeSwapped(age) == IF age = s_adults THEN 0 ELSE 1

AgeCode(age) == IF age = s_adults THEN 1 ELSE 0

SexCode(sex) == IF sex = s_women THEN 1 ELSE 0

LabelOf(survived) == IF survived = s_yes THEN 1 ELSE 0

\* variant: the values validated before the class is converted
ConvertValidateFirst(klass, age, sex, survived) ==
    IF UnknownValue(age, sex, survived) THEN Raise("RuntimeError", "unknown value")
    ELSE IF klass = << >> THEN Raise("IndexError", "string index out of range")
    ELSE IF ~IsDigit(klass[1]) THEN Raise("ValueError", "invalid literal for int()")
    ELSE LabeledPoint(LabelOf(survived),
                      <<KlassCode(klass), AgeCode(age), SexCode(sex)>>)

\* the statements after the tuple assignment
Convert(klass, age, sex, survived) ==
    IF klass = << >> THEN Raise("IndexError", "string index out of range")
    ELSE IF ~IsDigit(klass[1]) THEN Raise("ValueError", "invalid literal for int()")
    ELSE IF UnknownValue(age, sex, survived) THEN Raise("RuntimeError", "unknown value")
    ELSE LabeledPoint(LabelOf(survived),
                      <<KlassCode(klass), AgeCode(age), SexCode(sex)>>)

row_to_labeled_point(l) ==
    LET segs == StrippedSegments(l)
    IN  IF Len(segs) < NumTargets
            THEN Raise("ValueError", "not enough values to unpack")
        ELSE IF Len(segs) > NumTargets
            THEN Raise("ValueError", "too many values to unpack")
        ELSE Convert(segs[2], segs[3], segs[4], segs[5])

(***************************************************************************)
(* The input lines of SpecParse: five tokens, quoted or not, joined by     *)
(* commas, then cut to or padded to the chosen number of fields.           *)
(***************************************************************************)
IdTokens == {s_1}
ClassTokens == {s_1st_class, s_2nd_class, s_3rd_class, s_4th_class,
                s_0th_class, s_first_class, s_1st, s_empty}
AgeTokens == {s_adults, s_child, s_adult, s_age}
SexTokens == {s_man, s_women, s_woman, s_sex}
SurvivedTokens == {s_yes, s_no, s_maybe, s_survived}
Quotings == {"quoted", "bare"}
FieldCounts == (NumTargets - MaxFieldSkew)..(NumTargets + MaxFieldSkew)

Quoted(tok, q) == IF q = "quoted" THEN <<Quote>> \o tok \o <<Quote>> ELSE tok

RECURSIVE Join(_, _)
Join(toks, q) ==
    IF toks = << >> THEN << >>
    ELSE IF Len(toks) = 1 THEN Quoted(toks[1], q)
    ELSE Quoted(toks[1], q) \o <<Comma>> \o Join(Tail(toks), q)

\* the first n of the tokens, the last one repeated when n exceeds them
Fields(toks, n) ==
    [i \in 1..n |-> IF i <= Len(toks) THEN toks[i] ELSE toks[Len(toks)]]

MakeLine(toks, q, n) == Join(Fields(toks, n), q)

DataLine(id, klass, age, sex, survived) ==
    MakeLine(<<id, klass, age, sex, survived>>, "quoted", NumTargets)

InputLines ==
    { MakeLine(<<id, c, a, s, v>>, q, n) :
        id \in IdTokens, c \in ClassTokens, a \in AgeTokens, s \in SexTokens,
        v \in SurvivedTokens, q \in Quotings, n \in FieldCounts }


(***************************************************************************)
(* SpecParse: one call of row_to_labeled_point on an input line.           *)
(***************************************************************************)
NoRdd == << >>

Unset ==
    /\ header = NoRdd
    /\ data_rdd = NoRdd
    /\ labeled_points_rdd = NoRdd
    /\ split_seed = None
    /\ training_count = None
    /\ test_count = None
    /\ model = None
    /\ accuracy = None
    /\ error = None
    /\ test_seen = {}

InitParse ==
    /\ pc = "call"
    /\ line \in InputLines
    /\ result = None
    /\ raw_rdd = NoRdd
    /\ rng = << >>
    /\ prev = None
    /\ Unset

Call ==
    /\ pc = "call"
    /\ result' = row_to_labeled_point(line)
    /\ pc' = IF result'.kind = "LabeledPoint" THEN "returned" ELSE "raised"
    /\ UNCHANGED <<line, raw_rdd, header, data_rdd, labeled_points_rdd,
                   split_seed, rng, training_count, test_count, model,
                   accuracy, error, test_seen, prev>>

NextParse == Call

SpecParse == InitParse /\ [][NextParse]_vars


(***************************************************************************)
(* The table of the notebook's markdown cell: what each code stands for.   *)
(***************************************************************************)
DocSurvival == <<s_no, s_yes>>                          \* 0=no, 1=yes
DocClass == <<s_1st_class, s_2nd_class, s_3rd_class>>   \* 0=1st class, ...
DocAge == <<s_child, s_adults>>                         \* 0=child, 1=adults
DocGender == <<s_man, s_woman>>                         \* 0=man, 1=woman

\* the category a code stands for in one row of the table, if any
Decodes(table, code, category) ==
    /\ code + 1 \in DOMAIN table
    /\ table[code + 1] = category

(***************************************************************************)
(* Properties of row_to_labeled_point, checked under SpecParse.            *)
(***************************************************************************)
Called == pc # "call"

\* the fields of the input line, and how many commas it holds
LineFields == StrippedSegments(line)
NumCommas == Cardinality({i \in 1..Len(line) : line[i] = Comma})

ExampleLine == DataLine(s_1, s_1st_class, s_adults, s_man, s_yes)

\* C1: every well-formed line (class 1st/2nd/3rd, age adults/child, sex
\* man/women, survived yes/no) parses to label = 1 iff survived is yes and
\* features = [class number - 1, 1 iff adults, 1 iff women]; the example
\* line of the spec gives label 1, features [0, 1, 0].
C1_WellFormedEncoded ==
    /\ \A id \in IdTokens, c \in 1..3, a \in {s_adults, s_child},
          s \in {s_man, s_women}, v \in {s_yes, s_no} :
            (Called /\ line = DataLine(id, DocClass[c], a, s, v)) =>
                result = [kind |-> "LabeledPoint",
                          label |-> IF v = s_yes THEN 1 ELSE 0,
                          features |-> <<c - 1,
                                         IF a = s_adults THEN 1 ELSE 0,
                                         IF s = s_women THEN 1 ELSE 0>>]
    /\ (Called /\ line = ExampleLine) =>
            result = [kind |-> "LabeledPoint", label |-> 1, features |-> <<0, 1, 0>>]

C1_Witness ==
    /\ pc = "returned"
    /\ line = DataLine(s_1, s_3rd_class, s_child, s_women, s_no)
    /\ result.features = <<2, 0, 1>>

\* C2: a line whose age, sex or survived token is not a recognized value
\* never yields a LabeledPoint, whatever its other fields are: a call that
\* returns a record had five fields with all three tokens recognized.
C2_UnrecognizedFails ==
    (Called /\ result.kind = "LabeledPoint") =>
        /\ Len(LineFields) = NumTargets
        /\ LineFields[3] \in {s_adults, s_child}
        /\ LineFields[4] \in {s_man, s_women}
        /\ LineFields[5] \in {s_yes, s_no}

C2_Witness ==
    /\ pc = "raised"
    /\ line = DataLine(s_1, s_1st_class, s_adults, s_man, s_maybe)
    /\ result.kind = "RuntimeError"

\* C3 (as claimed): every returned record has class code in {0,1,2}, age
\* code in {0,1}, gender code in {0,1} and label in {0,1}, and a line whose
\* class field is not a known category never yields a record.
C3_CodesInRange ==
    (Called /\ result.kind = "LabeledPoint") =>
        /\ result.features[1] \in {0, 1, 2}
        /\ result.features[2] \in {0, 1}
        /\ result.features[3] \in {0, 1}
        /\ result.label \in {0, 1}
        /\ LineFields[2] \in {s_1st_class, s_2nd_class, s_3rd_class}

C5_SingleErrorKind ==
    pc = "raised" => result = [kind |-> "RuntimeError", msg |-> "unknown value"]

\* C5 (amended): a rejected line with five fields whose class field starts
\* with a digit is rejected with RuntimeError 'unknown value', whichever of
\* age, sex and survived is at fault; a wrong field count or a class field
\* starting with a non-digit raises ValueError and an empty class field
\* raises IndexError, also when age, sex or survived is unrecognized too.
C5_ErrorKinds ==
    pc = "raised" =>
        IF NumCommas + 1 # NumTargets THEN result.kind = "ValueError"
        ELSE IF LineFields[2] = s_empty THEN result.kind = "IndexError"
        ELSE IF LineFields[2][1] \notin {Digits[d] : d \in 1..Len(Digits)}
            THEN result.kind = "ValueError"
        ELSE result = [kind |-> "RuntimeError", msg |-> "unknown value"]

C5_Witness ==
    /\ pc = "raised"
    /\ line = DataLine(s_1, s_first_class, s_adult, s_man, s_yes)
    /\ result.kind = "ValueError"

\* C6 (as claimed): for every accepted line, decoding the label and the
\* three feature codes through the documented table recovers the class,
\* age, sex and survived strings of the line.
C6_RoundTrip ==
    pc = "returned" =>
        /\ Decodes(DocClass, result.features[1], LineFields[2])
        /\ Decodes(DocAge, result.features[2], LineFields[3])
        /\ Decodes(DocGender, result.features[3], LineFields[4])
        /\ Decodes(DocSurvival, result.label, LineFields[5])


(***************************************************************************)
(* The notebook run over an input file (Spec).                             *)
(***************************************************************************)
HeaderLine ==
    MakeLine(<<s_empty, s_class, s_age, s_sex, s_survived>>, "quoted", NumTargets)
RowA == DataLine(s_1, s_1st_class, s_adults, s_man, s_yes)
RowB == DataLine(s_1, s_3rd_class, s_child, s_women, s_no)

FileLines == {HeaderLine, RowA, RowB}

\* sc.textFile("titanic.csv"): the lines of the file
Files == UNION { [1..n -> FileLines] : n \in 0..MaxLines }

\* variant: the first line dropped by position
DropFirstLine(rdd, h) == Tail(rdd)

\* raw_rdd.filter(lambda line: line != header)
FilterHeader(rdd, h) == SelectSeq(rdd, LAMBDA l : l # h)

\* rdd.map(row_to_labeled_point): the value or the exception of each element
MapRows(rdd) == [i \in 1..Len(rdd) |-> row_to_labeled_point(rdd[i])]

Failed(points) == {i \in 1..Len(points) : points[i].kind # "LabeledPoint"}

FirstFailure(points) ==
    points[CHOOSE i \in Failed(points) : \A j \in Failed(points) : i <= j]

(***************************************************************************)
(* randomSplit([0.7, 0.3], seed = 0).  Weights and samples are in tenths:  *)
(* a uniform sample x of [0, 1) is the integer 10x.  The generator of a    *)
(* seed is an unknown but fixed function, rng[seed].samples; every         *)
(* evaluation of a split restarts it from the seed and draws one sample    *)
(* per element, in order.                                                  *)
(***************************************************************************)
Seed(v) == [kind |-> "int", val |-> v]

Seeds == 0..MaxSeed

Weights == <<7, 3>>

\* variant: no seed given
SplitSeedNone == None

\* the seed argument of the call
SplitSeed == Seed(0)

\* if seed is None: seed = random.randint(0, 2 ** 32 - 1)
SeedsFor(seed) == IF seed.kind = "None" THEN Seeds ELSE {seed.val}

\* cweights: the running sums of the weights, over their total
RECURSIVE Sum(_)
Sum(ws) == IF ws = << >> THEN 0 ELSE Head(ws) + Sum(Tail(ws))

CWeights(ws) == [i \in 1..(Len(ws) + 1) |-> Sum(SubSeq(ws, 1, i - 1))]

\* the samples a generator can yield: the least and the greatest of each
\* of the two cells [0, 0.7) and [0.7, 1.0)
Samples == {0, Weights[1] - 1, Weights[1], Sum(Weights) - 1}

\* variant: the upper end of the cell included
RangeSampleClosed(n, lb, ub, samples) ==
    SelectSeq([i \in 1..n |-> i], LAMBDA i : lb <= samples[i] /\ samples[i] <= ub)

\* the positions, of n elements, one split keeps: lb <= sample < ub
RangeSample(n, lb, ub, samples) ==
    SelectSeq([i \in 1..n |-> i], LAMBDA i : lb <= samples[i] /\ samples[i] < ub)

\* the k-th RDD of randomSplit's result, evaluated: positions of the parent
SplitRdd(k) ==
    LET cw == CWeights(Weights)
    IN  RangeSample(Len(labeled_points_rdd), cw[k], cw[k + 1],
                    rng[split_seed.val].samples)

training_rdd == SplitRdd(1)
test_rdd == SplitRdd(2)

\* the elements of a split: each with its position in labeled_points_rdd
Collect(positions) ==
    [k \in 1..Len(positions) |->
        [pos |-> positions[k], point |-> labeled_points_rdd[positions[k]]]]

(***************************************************************************)
(* Training is opaque: it takes the first element of the training subset   *)
(* (an empty one raises) and returns any function from the feature vectors *)
(* at hand to a prediction.  Evaluation: predict, zip with the labels,     *)
(* count the equal pairs, divide by test_count.                            *)
(***************************************************************************)
FeatureVectors == {labeled_points_rdd[i].features : i \in 1..Len(labeled_points_rdd)}

Models == [FeatureVectors -> {0, 1}]

\* model.predict(test_rdd.map(lambda x: x.features))
Predict(m, positions) ==
    [k \in 1..Len(positions) |-> m[labeled_points_rdd[positions[k]].features]]

\* test_rdd.map(lambda lp: lp.label).zip(predictions_rdd)
Zip(a, b) == [k \in 1..Len(a) |-> <<a[k], b[k]>>]

LabelsAndPredictions(m, positions) ==
    Zip([k \in 1..Len(positions) |-> labeled_points_rdd[positions[k]].label],
        Predict(m, positions))

\* variant: the differing pairs counted
CountDiffering(pairs) == Len(SelectSeq(pairs, LAMBDA v_p : v_p[1] # v_p[2]))

\* .filter(lambda v_p: v_p[0] == v_p[1]).count()
CountMatching(pairs) == Len(SelectSeq(pairs, LAMBDA v_p : v_p[1] = v_p[2]))

\* n / float(d): the exact quotient, or ZeroDivisionError
Divide(n, d) ==
    IF d = 0 THEN Raise("ZeroDivisionError", "float division by zero")
    ELSE [kind |-> "float", num |-> n, den |-> d]

Evaluate(m) == Divide(CountMatching(LabelsAndPredictions(m, test_rdd)), test_count)

Abort(cell, exc) == [kind |-> exc.kind, msg |-> exc.msg, cell |-> cell]

NotGenerated == [gen |-> FALSE, samples |-> << >>]

Init ==
    /\ pc = "cell6"
    /\ raw_rdd \in Files
    /\ rng = [s \in Seeds |-> NotGenerated]
    /\ prev = None
    /\ line = << >>
    /\ result = None
    /\ Unset

\* header = raw_rdd.first(); data_rdd = raw_rdd.filter(...)
Cell6 ==
    /\ pc = "cell6"
    /\ IF raw_rdd = << >>
       THEN /\ pc' = "failed"
            /\ error' = Abort(6, Raise("ValueError", "RDD is empty"))
            /\ UNCHANGED <<header, data_rdd>>
       ELSE /\ header' = Head(raw_rdd)
            /\ data_rdd' = FilterHeader(raw_rdd, header')
            /\ pc' = "cell9"
            /\ UNCHANGED error
    /\ UNCHANGED <<line, result, raw_rdd, labeled_points_rdd, split_seed, rng,
                   training_count, test_count, model, accuracy, test_seen, prev>>

\* labeled_points_rdd = data_rdd.map(row_to_labeled_point)
Cell9 ==
    /\ pc = "cell9"
    /\ labeled_points_rdd' = MapRows(data_rdd)
    /\ pc' = "cell10"
    /\ UNCHANGED <<line, result, raw_rdd, header, data_rdd, split_seed, rng,
                   training_count, test_count, model, accuracy, error,
                   test_seen, prev>>

\* labeled_points_rdd.takeSample(False, 5, 0): the first job over the mapped
\* rows; the exception of a row aborts it
Cell10 ==
    /\ pc = "cell10"
    /\ IF Failed(labeled_points_rdd) # {}
       THEN /\ pc' = "failed"
            /\ error' = Abort(10, FirstFailure(labeled_points_rdd))
       ELSE /\ pc' = "cell11"
            /\ UNCHANGED error
    /\ UNCHANGED <<line, result, raw_rdd, header, data_rdd, labeled_points_rdd,
                   split_seed, rng, training_count, test_count, model,
                   accuracy, test_seen, prev>>

\* training_rdd, test_rdd = labeled_points_rdd.randomSplit([0.7, 0.3], seed = 0)
Cell11 ==
    /\ pc = "cell11"
    /\ \E s \in SeedsFor(SplitSeed) :
            /\ split_seed' = Seed(s)
            /\ rng' \in IF rng[s].gen THEN {rng}
                         ELSE {[rng EXCEPT ![s] = [gen |-> TRUE, samples |-> d]] :
                                 d \in [1..Len(labeled_points_rdd) -> Samples]}
    /\ pc' = "cell12"
    /\ UNCHANGED <<line, result, raw_rdd, header, data_rdd, labeled_points_rdd,
                   training_count, test_count, model, accuracy, error,
                   test_seen, prev>>

\* training_count = training_rdd.count(); test_count = test_rdd.count()
Cell12 ==
    /\ pc = "cell12"
    /\ training_count' = Len(training_rdd)
    /\ test_count' = Len(test_rdd)
    /\ test_seen' = test_seen \cup {Collect(test_rdd)}
    /\ pc' = "cell13"
    /\ UNCHANGED <<line, result, raw_rdd, header, data_rdd, labeled_points_rdd,
                   split_seed, rng, model, accuracy, error, prev>>

\* model = DecisionTree.trainClassifier(training_rdd, ...)
Cell13 ==
    /\ pc = "cell13"
    /\ IF training_rdd = << >>
       THEN /\ pc' = "failed"
            /\ error' = Abort(13, Raise("ValueError", "RDD is empty"))
            /\ UNCHANGED model
       ELSE /\ model' \in Models
            /\ pc' = "cell14"
            /\ UNCHANGED error
    /\ UNCHANGED <<line, result, raw_rdd, header, data_rdd, labeled_points_rdd,
                   split_seed, rng, training_count, test_count, accuracy,
                   test_seen, prev>>

\* cells 14 to 16: predictions_rdd, truth_and_predictions_rdd, accuracy
Cell16 ==
    /\ pc = "cell14"
    /\ test_seen' = test_seen \cup {Collect(test_rdd)}
    /\ IF Evaluate(model).kind = "float"
       THEN /\ accuracy' = Evaluate(model)
            /\ pc' = "cell17"
            /\ UNCHANGED error
       ELSE /\ error' = Abort(16, Evaluate(model))
            /\ pc' = "failed"
            /\ UNCHANGED accuracy
    /\ UNCHANGED <<line, result, raw_rdd, header, data_rdd, labeled_points_rdd,
                   split_seed, rng, training_count, test_count, model, prev>>

\* model = LogisticRegressionWithSGD.train(training_rdd)
Cell17 ==
    /\ pc = "cell17"
    /\ IF training_rdd = << >>
       THEN /\ pc' = "failed"
            /\ error' = Abort(17, Raise("ValueError", "RDD is empty"))
            /\ UNCHANGED model
       ELSE /\ model' \in Models
            /\ pc' = "cell18"
            /\ UNCHANGED error
    /\ UNCHANGED <<line, result, raw_rdd, header, data_rdd, labeled_points_rdd,
                   split_seed, rng, training_count, test_count, accuracy,
                   test_seen, prev>>

\* cells 18 to 20: predictions_rdd, labels_and_predictions_rdd, accuracy
Cell20 ==
    /\ pc = "cell18"
    /\ test_seen' = test_seen \cup {Collect(test_rdd)}
    /\ IF Evaluate(model).kind = "float"
       THEN /\ accuracy' = Evaluate(model)
            /\ pc' = "done"
            /\ UNCHANGED error
       ELSE /\ error' = Abort(20, Evaluate(model))
            /\ pc' = "failed"
            /\ UNCHANGED accuracy
    /\ UNCHANGED <<line, result, raw_rdd, header, data_rdd, labeled_points_rdd,
                   split_seed, rng, training_count, test_count, model, prev>>

\* the notebook is run once more, in a fresh kernel, on the same file
Rerun ==
    /\ pc \in {"done", "failed"}
    /\ prev.kind = "None"
    /\ prev' = IF split_seed.kind = "None"
               THEN [kind |-> "run", split |-> FALSE,
                     training |-> << >>, test |-> << >>]
               ELSE [kind |-> "run", split |-> TRUE,
                     training |-> Collect(training_rdd),
                     test |-> Collect(test_rdd)]
    /\ pc' = "cell6"
    /\ header' = NoRdd
    /\ data_rdd' = NoRdd
    /\ labeled_points_rdd' = NoRdd
    /\ split_seed' = None
    /\ training_count' = None
    /\ test_count' = None
    /\ model' = None
    /\ accuracy' = None
    /\ error' = None
    /\ test_seen' = {}
    /\ UNCHANGED <<line, result, raw_rdd, rng>>

Next ==
    \/ Cell6
    \/ Cell9
    \/ Cell10
    \/ Cell11
    \/ Cell12
    \/ Cell13
    \/ Cell16
    \/ Cell17
    \/ Cell20
    \/ Rerun

Spec == Init /\ [][Next]_vars


(***************************************************************************)
(* Properties of the notebook run, checked under Spec.                     *)
(***************************************************************************)
Positions(rdd) == {rdd[k] : k \in 1..Len(rdd)}

\* the header filter has run on a non-empty file
Cleaned == pc # "cell6" /\ raw_rdd # << >>

\* the two counts of cell 12 have been taken
Counted ==
    \/ pc \in {"cell13", "cell14", "cell17", "cell18", "done"}
    \/ pc = "failed" /\ error.cell \in {13, 16, 17, 20}

\* an evaluation cell (16 or 20) has just run with the current model
EvaluationRan ==
    \/ pc \in {"cell17", "done"}
    \/ pc = "failed" /\ error.cell \in {16, 20}

\* the test records the current model predicts as labeled
Correct ==
    {i \in Positions(test_rdd) :
        model[labeled_points_rdd[i].features] = labeled_points_rdd[i].label}

RECURSIVE IsSubsequence(_, _)
IsSubsequence(a, b) ==
    IF a = << >> THEN TRUE
    ELSE IF b = << >> THEN FALSE
    ELSE IF Head(a) = Head(b) THEN IsSubsequence(Tail(a), Tail(b))
    ELSE IsSubsequence(a, Tail(b))

\* C7: after the split, for any input and any assignment of samples, the
\* training and test subsets are disjoint, every parsed record is in
\* exactly one of them, and training_count + test_count is the number of
\* parsed records.
C7_SplitPartitions ==
    Counted =>
        /\ Positions(training_rdd) \cap Positions(test_rdd) = {}
        /\ Positions(training_rdd) \cup Positions(test_rdd)
              = 1..Len(labeled_points_rdd)
        /\ training_count = Cardinality(Positions(training_rdd))
        /\ test_count = Cardinality(Positions(test_rdd))
        /\ training_count + test_count = Len(labeled_points_rdd)

C7_Witness ==
    /\ pc = "cell13"
    /\ Len(labeled_points_rdd) = 2
    /\ training_count = 1
    /\ test_count = 1

\* C8: the split is deterministic: a second run on the same lines with the
\* same seed and ratio gives the same training and test subsets, and every
\* use of test_rdd within a run (test_count and the two evaluations) sees
\* the same records.
C8_SplitDeterministic ==
    /\ Cardinality(test_seen) <= 1
    /\ (prev.kind = "run" /\ prev.split /\ split_seed.kind = "int") =>
            /\ Collect(training_rdd) = prev.training
            /\ Collect(test_rdd) = prev.test
            /\ test_seen \subseteq {prev.test}

C8_Witness ==
    /\ pc = "done"
    /\ prev.kind = "run"
    /\ prev.split
    /\ Len(prev.training) = 1
    /\ Len(prev.test) = 1
    /\ test_seen = {prev.test}

\* C9 (as claimed): for every test subset the splitter can produce and any
\* model, the evaluator yields accuracy = correct / total test records, a
\* value in [0,1], 1.0 when every prediction is correct and 0.0 when every
\* prediction is incorrect.
C9_AccuracyForEverySubset ==
    EvaluationRan =>
        /\ accuracy.kind = "float"
        /\ accuracy.num = Cardinality(Correct)
        /\ accuracy.den = Cardinality(Positions(test_rdd))
        /\ 0 <= accuracy.num /\ accuracy.num <= accuracy.den

\* C9 (amended): for every non-empty test subset the splitter can produce
\* and any model, the evaluator yields accuracy = correct / total test
\* records, a value in [0,1], 1.0 when every prediction is correct and 0.0
\* when every prediction is incorrect; for the empty test subset it raises
\* ZeroDivisionError and yields no accuracy.
C9_AccuracyForNonEmptySubset ==
    /\ (EvaluationRan /\ test_rdd # << >>) =>
        /\ pc \in {"cell17", "done"}
        /\ accuracy.kind = "float"
        /\ accuracy.num = Cardinality(Correct)
        /\ accuracy.den = Cardinality(Positions(test_rdd))
        /\ accuracy.den > 0
        /\ 0 <= accuracy.num /\ accuracy.num <= accuracy.den
        /\ (Correct = Positions(test_rdd)) <=> (accuracy.num = accuracy.den)
        /\ (Correct = {}) <=> (accuracy.num = 0)
    /\ (EvaluationRan /\ test_rdd = << >>) =>
        /\ pc = "failed"
        /\ error.kind = "ZeroDivisionError"

C9_Witness ==
    /\ pc = "done"
    /\ accuracy.den = 2
    /\ accuracy.num = 1

\* C10 (as claimed): the clean step drops exactly the header line: data_rdd
\* holds every line after the first, in order, so the number of data rows
\* is the line count minus one, also when a later line equals the first.
C10_DropsExactlyHeader ==
    Cleaned =>
        /\ data_rdd = Tail(raw_rdd)
        /\ Len(data_rdd) = Len(raw_rdd) - 1

\* C10 (amended): the clean step drops the header line and every later line
\* with the same text: data_rdd holds, in order, every line that differs
\* from the first line; the number of data rows is the line count minus
\* one exactly when no later line has the same text as the first line.
C10_DropsEveryHeaderCopy ==
    Cleaned =>
        LET copies == {i \in 1..Len(raw_rdd) : raw_rdd[i] = raw_rdd[1]}
        IN  /\ \A k \in 1..Len(data_rdd) : data_rdd[k] # raw_rdd[1]
            /\ Len(data_rdd) = Len(raw_rdd) - Cardinality(copies)
            /\ IsSubsequence(data_rdd, Tail(raw_rdd))
            /\ (copies = {1}) <=> (Len(data_rdd) = Len(raw_rdd) - 1)
            /\ (copies = {1}) => data_rdd = Tail(raw_rdd)

C10_Witness ==
    /\ pc = "cell9"
    /\ Len(raw_rdd) = 3
    /\ raw_rdd[3] = raw_rdd[1]
    /\ raw_rdd[2] # raw_rdd[1]
    /\ data_rdd = <<raw_rdd[2]>>

=============================================================================
